---- MODULE Spec2Model ----
(***************************************************************************)
(* Model of slack_pull_reminder.py: the build-status aggregation, the      *)
(* review-status classification, and the cli run that filters, formats,    *)
(* groups and posts the pull requests of an organization.                  *)
(*                                                                         *)
(* Text is modelled as the sequence of its Unicode code points, so that    *)
(* lower(), strip() and the substring test are computed, not assumed.      *)
(* An environment variable holding a comma separated list is modelled as   *)
(* the sequence of its comma separated pieces (<<>> when unset or empty).  *)
(* A python dict is a sequence of [key, value] entries in insertion order. *)
(* An optional timestamp is <<>> (None) or <<t>>.                          *)
(***************************************************************************)
EXTENDS Integers, Sequences, FiniteSets, TLC

VARIABLES
    pc,                             \* position of the running function
    env,                            \* os.environ, the settings the module reads at import
    build_statuses,                 \* fetch_pull_request_build_statuses(pull_request)
    first_loop_statuses,            \* most_recent_status_by_context when its first loop ends
    most_recent_status_by_context,  \* the dict of fetch_combined_build_status on return
    combined_status,                \* what fetch_combined_build_status returns
    pr_reviews,                     \* pull_request.reviews()
    pr_commits,                     \* fetch_better_commits(pull_request)
    pr_user,                        \* pull_request.user
    last_reviews,                   \* the list of fetch_pull_request_review_status_group
    pr_status_group,                \* what fetch_pull_request_review_status_group returns
    organization,                   \* the repositories of the organization and their pulls
    repo_idx,                       \* how many repositories fetch_organization_pulls has visited
    prs,                            \* the list prs of fetch_organization_pulls
    pull_idx,                       \* how many pulls format_pull_requests has visited
    grouped_by_pr_status,           \* the defaultdict of format_pull_requests
    lines,                          \* what fetch_organization_pulls returns
    slack_posts,                    \* the texts handed to send_to_slack, in order
    status_fetches,                 \* [html_url, combined] of every pull whose build statuses
                                    \* were fetched and combined, in the order of the calls
    review_fetches                  \* [html_url, group] of every pull whose reviews were
                                    \* fetched and classified, in the order of the calls

buildVars == <<build_statuses, first_loop_statuses, most_recent_status_by_context,
               combined_status>>
reviewVars == <<pr_reviews, pr_commits, pr_user, last_reviews, pr_status_group>>
cliVars == <<organization, repo_idx, prs, pull_idx, grouped_by_pr_status, lines,
             slack_posts, status_fetches, review_fetches>>

vars == <<pc, env, buildVars, reviewVars, cliVars>>

-----------------------------------------------------------------------------
(* Bounds of the model. *)

MaxStatuses == 3
MaxTime == 2
MaxReviews == 2
MaxCommits == 2
MaxPulls == 2

-----------------------------------------------------------------------------
(* Text: a python str is the sequence of its Unicode code points. *)

\* c lies in one of the ranges <<first, last>> of R
InRanges(c, R) == \E i \in 1..Len(R) : R[i][1] <= c /\ c <= R[i][2]

\* the code points above ASCII that str.lower() changes into one other code point, as
\* runs <<first, last, step, delta>>: every step-th code point from first to last is
\* changed by adding delta (the tables of CPython 3.11, Unicode 14.0)
LowerCase ==
    <<
      <<192,214,1,32>>, <<216,222,1,32>>, <<256,302,2,1>>, <<306,310,2,1>>, <<313,327,2,1>>,
      <<330,374,2,1>>, <<376,376,1,-121>>, <<377,381,2,1>>, <<385,385,1,210>>, <<386,388,2,1>>,
      <<390,390,1,206>>, <<391,391,1,1>>, <<393,394,1,205>>, <<395,395,1,1>>, <<398,398,1,79>>,
      <<399,399,1,202>>, <<400,400,1,203>>, <<401,401,1,1>>, <<403,403,1,205>>,
      <<404,404,1,207>>, <<406,406,1,211>>, <<407,407,1,209>>, <<408,408,1,1>>,
      <<412,412,1,211>>, <<413,413,1,213>>, <<415,415,1,214>>, <<416,420,2,1>>,
      <<422,422,1,218>>, <<423,423,1,1>>, <<425,425,1,218>>, <<428,428,1,1>>, <<430,430,1,218>>,
      <<431,431,1,1>>, <<433,434,1,217>>, <<435,437,2,1>>, <<439,439,1,219>>, <<440,440,1,1>>,
      <<444,444,1,1>>, <<452,452,1,2>>, <<453,453,1,1>>, <<455,455,1,2>>, <<456,456,1,1>>,
      <<458,458,1,2>>, <<459,475,2,1>>, <<478,494,2,1>>, <<497,497,1,2>>, <<498,500,2,1>>,
      <<502,502,1,-97>>, <<503,503,1,-56>>, <<504,542,2,1>>, <<544,544,1,-130>>, <<546,562,2,1>>,
      <<570,570,1,10795>>, <<571,571,1,1>>, <<573,573,1,-163>>, <<574,574,1,10792>>,
      <<577,577,1,1>>, <<579,579,1,-195>>, <<580,580,1,69>>, <<581,581,1,71>>, <<582,590,2,1>>,
      <<880,882,2,1>>, <<886,886,1,1>>, <<895,895,1,116>>, <<902,902,1,38>>, <<904,906,1,37>>,
      <<908,908,1,64>>, <<910,911,1,63>>, <<913,929,1,32>>, <<931,939,1,32>>, <<975,975,1,8>>,
      <<984,1006,2,1>>, <<1012,1012,1,-60>>, <<1015,1015,1,1>>, <<1017,1017,1,-7>>,
      <<1018,1018,1,1>>, <<1021,1023,1,-130>>, <<1024,1039,1,80>>, <<1040,1071,1,32>>,
      <<1120,1152,2,1>>, <<1162,1214,2,1>>, <<1216,1216,1,15>>, <<1217,1229,2,1>>,
      <<1232,1326,2,1>>, <<1329,1366,1,48>>, <<4256,4293,1,7264>>, <<4295,4295,1,7264>>,
      <<4301,4301,1,7264>>, <<5024,5103,1,38864>>, <<5104,5109,1,8>>, <<7312,7354,1,-3008>>,
      <<7357,7359,1,-3008>>, <<7680,7828,2,1>>, <<7838,7838,1,-7615>>, <<7840,7934,2,1>>,
      <<7944,7951,1,-8>>, <<7960,7965,1,-8>>, <<7976,7983,1,-8>>, <<7992,7999,1,-8>>,
      <<8008,8013,1,-8>>, <<8025,8031,2,-8>>, <<8040,8047,1,-8>>, <<8072,8079,1,-8>>,
      <<8088,8095,1,-8>>, <<8104,8111,1,-8>>, <<8120,8121,1,-8>>, <<8122,8123,1,-74>>,
      <<8124,8124,1,-9>>, <<8136,8139,1,-86>>, <<8140,8140,1,-9>>, <<8152,8153,1,-8>>,
      <<8154,8155,1,-100>>, <<8168,8169,1,-8>>, <<8170,8171,1,-112>>, <<8172,8172,1,-7>>,
      <<8184,8185,1,-128>>, <<8186,8187,1,-126>>, <<8188,8188,1,-9>>, <<8486,8486,1,-7517>>,
      <<8490,8490,1,-8383>>, <<8491,8491,1,-8262>>, <<8498,8498,1,28>>, <<8544,8559,1,16>>,
      <<8579,8579,1,1>>, <<9398,9423,1,26>>, <<11264,11311,1,48>>, <<11360,11360,1,1>>,
      <<11362,11362,1,-10743>>, <<11363,11363,1,-3814>>, <<11364,11364,1,-10727>>,
      <<11367,11371,2,1>>, <<11373,11373,1,-10780>>, <<11374,11374,1,-10749>>,
      <<11375,11375,1,-10783>>, <<11376,11376,1,-10782>>, <<11378,11378,1,1>>,
      <<11381,11381,1,1>>, <<11390,11391,1,-10815>>, <<11392,11490,2,1>>, <<11499,11501,2,1>>,
      <<11506,11506,1,1>>, <<42560,42604,2,1>>, <<42624,42650,2,1>>, <<42786,42798,2,1>>,
      <<42802,42862,2,1>>, <<42873,42875,2,1>>, <<42877,42877,1,-35332>>, <<42878,42886,2,1>>,
      <<42891,42891,1,1>>, <<42893,42893,1,-42280>>, <<42896,42898,2,1>>, <<42902,42920,2,1>>,
      <<42922,42922,1,-42308>>, <<42923,42923,1,-42319>>, <<42924,42924,1,-42315>>,
      <<42925,42925,1,-42305>>, <<42926,42926,1,-42308>>, <<42928,42928,1,-42258>>,
      <<42929,42929,1,-42282>>, <<42930,42930,1,-42261>>, <<42931,42931,1,928>>,
      <<42932,42946,2,1>>, <<42948,42948,1,-48>>, <<42949,42949,1,-42307>>,
      <<42950,42950,1,-35384>>, <<42951,42953,2,1>>, <<42960,42960,1,1>>, <<42966,42968,2,1>>,
      <<42997,42997,1,1>>, <<65313,65338,1,32>>, <<66560,66599,1,40>>, <<66736,66771,1,40>>,
      <<66928,66938,1,39>>, <<66940,66954,1,39>>, <<66956,66962,1,39>>, <<66964,66965,1,39>>,
      <<68736,68786,1,64>>, <<71840,71871,1,32>>, <<93760,93791,1,32>>, <<125184,125217,1,34>>
    >>

\* the cased code points (Lowercase, Uppercase or titlecase letter), as ranges
Cased ==
    <<
      <<65,90>>, <<97,122>>, <<170,170>>, <<181,181>>, <<186,186>>, <<192,214>>, <<216,246>>,
      <<248,442>>, <<444,447>>, <<452,659>>, <<661,696>>, <<704,705>>, <<736,740>>, <<837,837>>,
      <<880,883>>, <<886,887>>, <<890,893>>, <<895,895>>, <<902,902>>, <<904,906>>, <<908,908>>,
      <<910,929>>, <<931,1013>>, <<1015,1153>>, <<1162,1327>>, <<1329,1366>>, <<1376,1416>>,
      <<4256,4293>>, <<4295,4295>>, <<4301,4301>>, <<4304,4346>>, <<4349,4351>>, <<5024,5109>>,
      <<5112,5117>>, <<7296,7304>>, <<7312,7354>>, <<7357,7359>>, <<7424,7615>>, <<7680,7957>>,
      <<7960,7965>>, <<7968,8005>>, <<8008,8013>>, <<8016,8023>>, <<8025,8025>>, <<8027,8027>>,
      <<8029,8029>>, <<8031,8061>>, <<8064,8116>>, <<8118,8124>>, <<8126,8126>>, <<8130,8132>>,
      <<8134,8140>>, <<8144,8147>>, <<8150,8155>>, <<8160,8172>>, <<8178,8180>>, <<8182,8188>>,
      <<8305,8305>>, <<8319,8319>>, <<8336,8348>>, <<8450,8450>>, <<8455,8455>>, <<8458,8467>>,
      <<8469,8469>>, <<8473,8477>>, <<8484,8484>>, <<8486,8486>>, <<8488,8488>>, <<8490,8493>>,
      <<8495,8500>>, <<8505,8505>>, <<8508,8511>>, <<8517,8521>>, <<8526,8526>>, <<8544,8575>>,
      <<8579,8580>>, <<9398,9449>>, <<11264,11492>>, <<11499,11502>>, <<11506,11507>>,
      <<11520,11557>>, <<11559,11559>>, <<11565,11565>>, <<42560,42605>>, <<42624,42653>>,
      <<42786,42887>>, <<42891,42894>>, <<42896,42954>>, <<42960,42961>>, <<42963,42963>>,
      <<42965,42969>>, <<42997,42998>>, <<43000,43002>>, <<43824,43866>>, <<43868,43880>>,
      <<43888,43967>>, <<64256,64262>>, <<64275,64279>>, <<65313,65338>>, <<65345,65370>>,
      <<66560,66639>>, <<66736,66771>>, <<66776,66811>>, <<66928,66938>>, <<66940,66954>>,
      <<66956,66962>>, <<66964,66965>>, <<66967,66977>>, <<66979,66993>>, <<66995,67001>>,
      <<67003,67004>>, <<67456,67456>>, <<67459,67461>>, <<67463,67504>>, <<67506,67514>>,
      <<68736,68786>>, <<68800,68850>>, <<71840,71903>>, <<93760,93823>>, <<119808,119892>>,
      <<119894,119964>>, <<119966,119967>>, <<119970,119970>>, <<119973,119974>>,
      <<119977,119980>>, <<119982,119993>>, <<119995,119995>>, <<119997,120003>>,
      <<120005,120069>>, <<120071,120074>>, <<120077,120084>>, <<120086,120092>>,
      <<120094,120121>>, <<120123,120126>>, <<120128,120132>>, <<120134,120134>>,
      <<120138,120144>>, <<120146,120485>>, <<120488,120512>>, <<120514,120538>>,
      <<120540,120570>>, <<120572,120596>>, <<120598,120628>>, <<120630,120654>>,
      <<120656,120686>>, <<120688,120712>>, <<120714,120744>>, <<120746,120770>>,
      <<120772,120779>>, <<122624,122633>>, <<122635,122654>>, <<125184,125251>>,
      <<127280,127305>>, <<127312,127337>>, <<127344,127369>>
    >>

\* the case-ignorable code points, as ranges
CaseIgnorable ==
    <<
      <<39,39>>, <<46,46>>, <<58,58>>, <<94,94>>, <<96,96>>, <<168,168>>, <<173,173>>,
      <<175,175>>, <<180,180>>, <<183,184>>, <<688,879>>, <<884,885>>, <<890,890>>, <<900,901>>,
      <<903,903>>, <<1155,1161>>, <<1369,1369>>, <<1375,1375>>, <<1425,1469>>, <<1471,1471>>,
      <<1473,1474>>, <<1476,1477>>, <<1479,1479>>, <<1524,1524>>, <<1536,1541>>, <<1552,1562>>,
      <<1564,1564>>, <<1600,1600>>, <<1611,1631>>, <<1648,1648>>, <<1750,1757>>, <<1759,1768>>,
      <<1770,1773>>, <<1807,1807>>, <<1809,1809>>, <<1840,1866>>, <<1958,1968>>, <<2027,2037>>,
      <<2042,2042>>, <<2045,2045>>, <<2070,2093>>, <<2137,2139>>, <<2184,2184>>, <<2192,2193>>,
      <<2200,2207>>, <<2249,2306>>, <<2362,2362>>, <<2364,2364>>, <<2369,2376>>, <<2381,2381>>,
      <<2385,2391>>, <<2402,2403>>, <<2417,2417>>, <<2433,2433>>, <<2492,2492>>, <<2497,2500>>,
      <<2509,2509>>, <<2530,2531>>, <<2558,2558>>, <<2561,2562>>, <<2620,2620>>, <<2625,2626>>,
      <<2631,2632>>, <<2635,2637>>, <<2641,2641>>, <<2672,2673>>, <<2677,2677>>, <<2689,2690>>,
      <<2748,2748>>, <<2753,2757>>, <<2759,2760>>, <<2765,2765>>, <<2786,2787>>, <<2810,2815>>,
      <<2817,2817>>, <<2876,2876>>, <<2879,2879>>, <<2881,2884>>, <<2893,2893>>, <<2901,2902>>,
      <<2914,2915>>, <<2946,2946>>, <<3008,3008>>, <<3021,3021>>, <<3072,3072>>, <<3076,3076>>,
      <<3132,3132>>, <<3134,3136>>, <<3142,3144>>, <<3146,3149>>, <<3157,3158>>, <<3170,3171>>,
      <<3201,3201>>, <<3260,3260>>, <<3263,3263>>, <<3270,3270>>, <<3276,3277>>, <<3298,3299>>,
      <<3328,3329>>, <<3387,3388>>, <<3393,3396>>, <<3405,3405>>, <<3426,3427>>, <<3457,3457>>,
      <<3530,3530>>, <<3538,3540>>, <<3542,3542>>, <<3633,3633>>, <<3636,3642>>, <<3654,3662>>,
      <<3761,3761>>, <<3764,3772>>, <<3782,3782>>, <<3784,3789>>, <<3864,3865>>, <<3893,3893>>,
      <<3895,3895>>, <<3897,3897>>, <<3953,3966>>, <<3968,3972>>, <<3974,3975>>, <<3981,3991>>,
      <<3993,4028>>, <<4038,4038>>, <<4141,4144>>, <<4146,4151>>, <<4153,4154>>, <<4157,4158>>,
      <<4184,4185>>, <<4190,4192>>, <<4209,4212>>, <<4226,4226>>, <<4229,4230>>, <<4237,4237>>,
      <<4253,4253>>, <<4348,4348>>, <<4957,4959>>, <<5906,5908>>, <<5938,5939>>, <<5970,5971>>,
      <<6002,6003>>, <<6068,6069>>, <<6071,6077>>, <<6086,6086>>, <<6089,6099>>, <<6103,6103>>,
      <<6109,6109>>, <<6155,6159>>, <<6211,6211>>, <<6277,6278>>, <<6313,6313>>, <<6432,6434>>,
      <<6439,6440>>, <<6450,6450>>, <<6457,6459>>, <<6679,6680>>, <<6683,6683>>, <<6742,6742>>,
      <<6744,6750>>, <<6752,6752>>, <<6754,6754>>, <<6757,6764>>, <<6771,6780>>, <<6783,6783>>,
      <<6823,6823>>, <<6832,6862>>, <<6912,6915>>, <<6964,6964>>, <<6966,6970>>, <<6972,6972>>,
      <<6978,6978>>, <<7019,7027>>, <<7040,7041>>, <<7074,7077>>, <<7080,7081>>, <<7083,7085>>,
      <<7142,7142>>, <<7144,7145>>, <<7149,7149>>, <<7151,7153>>, <<7212,7219>>, <<7222,7223>>,
      <<7288,7293>>, <<7376,7378>>, <<7380,7392>>, <<7394,7400>>, <<7405,7405>>, <<7412,7412>>,
      <<7416,7417>>, <<7468,7530>>, <<7544,7544>>, <<7579,7679>>, <<8125,8125>>, <<8127,8129>>,
      <<8141,8143>>, <<8157,8159>>, <<8173,8175>>, <<8189,8190>>, <<8203,8207>>, <<8216,8217>>,
      <<8228,8228>>, <<8231,8231>>, <<8234,8238>>, <<8288,8292>>, <<8294,8303>>, <<8305,8305>>,
      <<8319,8319>>, <<8336,8348>>, <<8400,8432>>, <<11388,11389>>, <<11503,11505>>,
      <<11631,11631>>, <<11647,11647>>, <<11744,11775>>, <<11823,11823>>, <<12293,12293>>,
      <<12330,12333>>, <<12337,12341>>, <<12347,12347>>, <<12441,12446>>, <<12540,12542>>,
      <<40981,40981>>, <<42232,42237>>, <<42508,42508>>, <<42607,42610>>, <<42612,42621>>,
      <<42623,42623>>, <<42652,42655>>, <<42736,42737>>, <<42752,42785>>, <<42864,42864>>,
      <<42888,42890>>, <<42994,42996>>, <<43000,43001>>, <<43010,43010>>, <<43014,43014>>,
      <<43019,43019>>, <<43045,43046>>, <<43052,43052>>, <<43204,43205>>, <<43232,43249>>,
      <<43263,43263>>, <<43302,43309>>, <<43335,43345>>, <<43392,43394>>, <<43443,43443>>,
      <<43446,43449>>, <<43452,43453>>, <<43471,43471>>, <<43493,43494>>, <<43561,43566>>,
      <<43569,43570>>, <<43573,43574>>, <<43587,43587>>, <<43596,43596>>, <<43632,43632>>,
      <<43644,43644>>, <<43696,43696>>, <<43698,43700>>, <<43703,43704>>, <<43710,43711>>,
      <<43713,43713>>, <<43741,43741>>, <<43756,43757>>, <<43763,43764>>, <<43766,43766>>,
      <<43867,43871>>, <<43881,43883>>, <<44005,44005>>, <<44008,44008>>, <<44013,44013>>,
      <<64286,64286>>, <<64434,64450>>, <<65024,65039>>, <<65043,65043>>, <<65056,65071>>,
      <<65106,65106>>, <<65109,65109>>, <<65279,65279>>, <<65287,65287>>, <<65294,65294>>,
      <<65306,65306>>, <<65342,65342>>, <<65344,65344>>, <<65392,65392>>, <<65438,65439>>,
      <<65507,65507>>, <<65529,65531>>, <<66045,66045>>, <<66272,66272>>, <<66422,66426>>,
      <<67456,67461>>, <<67463,67504>>, <<67506,67514>>, <<68097,68099>>, <<68101,68102>>,
      <<68108,68111>>, <<68152,68154>>, <<68159,68159>>, <<68325,68326>>, <<68900,68903>>,
      <<69291,69292>>, <<69446,69456>>, <<69506,69509>>, <<69633,69633>>, <<69688,69702>>,
      <<69744,69744>>, <<69747,69748>>, <<69759,69761>>, <<69811,69814>>, <<69817,69818>>,
      <<69821,69821>>, <<69826,69826>>, <<69837,69837>>, <<69888,69890>>, <<69927,69931>>,
      <<69933,69940>>, <<70003,70003>>, <<70016,70017>>, <<70070,70078>>, <<70089,70092>>,
      <<70095,70095>>, <<70191,70193>>, <<70196,70196>>, <<70198,70199>>, <<70206,70206>>,
      <<70367,70367>>, <<70371,70378>>, <<70400,70401>>, <<70459,70460>>, <<70464,70464>>,
      <<70502,70508>>, <<70512,70516>>, <<70712,70719>>, <<70722,70724>>, <<70726,70726>>,
      <<70750,70750>>, <<70835,70840>>, <<70842,70842>>, <<70847,70848>>, <<70850,70851>>,
      <<71090,71093>>, <<71100,71101>>, <<71103,71104>>, <<71132,71133>>, <<71219,71226>>,
      <<71229,71229>>, <<71231,71232>>, <<71339,71339>>, <<71341,71341>>, <<71344,71349>>,
      <<71351,71351>>, <<71453,71455>>, <<71458,71461>>, <<71463,71467>>, <<71727,71735>>,
      <<71737,71738>>, <<71995,71996>>, <<71998,71998>>, <<72003,72003>>, <<72148,72151>>,
      <<72154,72155>>, <<72160,72160>>, <<72193,72202>>, <<72243,72248>>, <<72251,72254>>,
      <<72263,72263>>, <<72273,72278>>, <<72281,72283>>, <<72330,72342>>, <<72344,72345>>,
      <<72752,72758>>, <<72760,72765>>, <<72767,72767>>, <<72850,72871>>, <<72874,72880>>,
      <<72882,72883>>, <<72885,72886>>, <<73009,73014>>, <<73018,73018>>, <<73020,73021>>,
      <<73023,73029>>, <<73031,73031>>, <<73104,73105>>, <<73109,73109>>, <<73111,73111>>,
      <<73459,73460>>, <<78896,78904>>, <<92912,92916>>, <<92976,92982>>, <<92992,92995>>,
      <<94031,94031>>, <<94095,94111>>, <<94176,94177>>, <<94179,94180>>, <<110576,110579>>,
      <<110581,110587>>, <<110589,110590>>, <<113821,113822>>, <<113824,113827>>,
      <<118528,118573>>, <<118576,118598>>, <<119143,119145>>, <<119155,119170>>,
      <<119173,119179>>, <<119210,119213>>, <<119362,119364>>, <<121344,121398>>,
      <<121403,121452>>, <<121461,121461>>, <<121476,121476>>, <<121499,121503>>,
      <<121505,121519>>, <<122880,122886>>, <<122888,122904>>, <<122907,122913>>,
      <<122915,122916>>, <<122918,122922>>, <<123184,123197>>, <<123566,123566>>,
      <<123628,123631>>, <<125136,125142>>, <<125252,125259>>, <<127995,127999>>,
      <<917505,917505>>, <<917536,917631>>, <<917760,917999>>
    >>

\* the code points str.isspace() holds of, which str.strip() removes, as ranges
WhiteSpace ==
    <<
      <<9,13>>, <<28,32>>, <<133,133>>, <<160,160>>, <<5760,5760>>, <<8192,8202>>, <<8232,8233>>,
      <<8239,8239>>, <<8287,8287>>, <<12288,12288>>
    >>

\* c is one of the code points of a run of LowerCase
InRun(c, run) == run[1] <= c /\ c <= run[2] /\ (c - run[1]) % run[3] = 0

\* str.lower() of the one-character string c, as a sequence: U+0130 gives two code points
LowerChar(c) ==
    IF c < 128 THEN (IF 65 <= c /\ c <= 90 THEN <<c + 32>> ELSE <<c>>)
    ELSE IF c = 304 THEN <<105, 775>>
    ELSE IF \E i \in 1..Len(LowerCase) : InRun(c, LowerCase[i])
         THEN <<c + LowerCase[CHOOSE i \in 1..Len(LowerCase) : InRun(c, LowerCase[i])][4]>>
         ELSE <<c>>

\* the capital sigma at s[i] is final: the nearest code point before it that is not
\* case-ignorable is cased, and the nearest after it, if any, is not
FinalSigma(s, i) ==
    LET before == {j \in 1..(i - 1) : ~InRanges(s[j], CaseIgnorable)}
        after  == {j \in (i + 1)..Len(s) : ~InRanges(s[j], CaseIgnorable)}
    IN /\ before # {}
       /\ InRanges(s[CHOOSE j \in before : \A k \in before : k <= j], Cased)
       /\ \/ after = {}
          \/ ~InRanges(s[CHOOSE j \in after : \A k \in after : j <= k], Cased)

RECURSIVE LowerFrom(_, _)
LowerFrom(s, i) ==
    IF i > Len(s) THEN <<>>
    ELSE (IF s[i] = 931 THEN (IF FinalSigma(s, i) THEN <<962>> ELSE <<963>>)
          ELSE LowerChar(s[i]))
         \o LowerFrom(s, i + 1)

\* str.lower()
lower(s) == LowerFrom(s, 1)

IsSpace(c) == InRanges(c, WhiteSpace)

\* str.strip()
strip(s) ==
    IF \A i \in 1..Len(s) : IsSpace(s[i]) THEN <<>>
    ELSE LET first == CHOOSE i \in 1..Len(s) :
                          /\ ~IsSpace(s[i])
                          /\ \A j \in 1..(i-1) : IsSpace(s[j])
             last  == CHOOSE i \in 1..Len(s) :
                          /\ ~IsSpace(s[i])
                          /\ \A j \in (i+1)..Len(s) : IsSpace(s[j])
         IN SubSeq(s, first, last)

\* `word in text' for two python strings
IsSubstring(word, text) ==
    \E i \in 0..(Len(text) - Len(word)) : SubSeq(text, i + 1, i + Len(word)) = word

\* `x in list'
InList(x, list) == \E i \in 1..Len(list) : list[i] = x

None == <<>>
Some(t) == <<t>>

-----------------------------------------------------------------------------
(* Settings read at import. *)

\* [x.lower().strip() for x in value.split(',')] if value else []
ParseList(value) == [i \in 1..Len(value) |-> strip(lower(value[i]))]

IGNORE_WORDS == ParseList(env.IGNORE_WORDS)
REPOSITORIES == ParseList(env.REPOSITORIES)
USERNAMES == ParseList(env.USERNAMES)
IGNORE_BUILD_STATUS_CONTEXTS == ParseList(env.IGNORE_BUILD_STATUS_CONTEXTS)

\* os.environ.get(name, True) used as a condition: an optional string, {} when
\* unset and {s} when set to s; unset is True, a set string is true unless empty.
Truthy(value) == value = {} \/ \E s \in value : s # <<>>

SHOW_BUILD_STATUS == Truthy(env.SHOW_BUILD_STATUS)
SPLIT_BY_REVIEW_STATUS == Truthy(env.SPLIT_BY_REVIEW_STATUS)

state_to_emoji(state) ==
    CASE state = "success" -> "SUCCESS_EMOJI"
      [] state = "pending" -> "PENDING_EMOJI"
      [] state = "failure" -> "FAILURE_EMOJI"
      [] OTHER -> "       "

PullRequestStatusGroup ==
    {"approved", "changes_requested", "mixed_reception", "unreviewed", "changes_since_review"}

pr_status_group_to_msg(group) ==
    CASE group = "unreviewed" -> <<"UNREVIEWED_GROUP_MSG">>
      [] group = "mixed_reception" -> <<"MIXED_RECEPTION_GROUP_MSG">>
      [] group = "changes_requested" -> <<"CHANGES_REQUESTED_GROUP_MSG">>
      [] group = "approved" -> <<"APPROVED_GROUP_MSG">>
      [] group = "changes_since_review" -> <<"CHANGES_SINCE_REVIEW_GROUP_MSG">>

enum_declaration_order ==
    <<"approved", "changes_requested", "mixed_reception", "unreviewed", "changes_since_review">>
pr_status_groups_display_order ==
    <<"unreviewed", "changes_since_review", "mixed_reception", "changes_requested", "approved">>

-----------------------------------------------------------------------------
(* Python dict, insertion ordered. *)

DictHas(d, k) == \E i \in 1..Len(d) : d[i].key = k

DictGet(d, k) == d[CHOOSE i \in 1..Len(d) : d[i].key = k].value

\* d[k] = v: a new key goes last, an existing key keeps its place
DictSet(d, k, v) ==
    IF DictHas(d, k)
    THEN [i \in 1..Len(d) |-> IF d[i].key = k THEN [key |-> k, value |-> v] ELSE d[i]]
    ELSE Append(d, [key |-> k, value |-> v])

\* del d[k]
DictDel(d, k) == SelectSeq(d, LAMBDA e : e.key # k)

\* d.values()
DictValues(d) == [i \in 1..Len(d) |-> d[i].value]

-----------------------------------------------------------------------------
(* fetch_combined_build_status *)

\* build_status.updated_at > most_recent_status_by_context[context].updated_at
UpdatedAfterOrAt(build_status, kept) == build_status.updated_at[1] >= kept.updated_at[1]
UpdatedAfter(build_status, kept) == build_status.updated_at[1] > kept.updated_at[1]

\* the first loop: the most recently updated status of every context
RECURSIVE MostRecentStatusByContext(_, _)
MostRecentStatusByContext(statuses, d) ==
    IF statuses = <<>> THEN d
    ELSE LET build_status == Head(statuses)
             rest == Tail(statuses)
         IN IF build_status.updated_at = None
            THEN MostRecentStatusByContext(rest, d)
            ELSE IF ~DictHas(d, build_status.context)
            THEN MostRecentStatusByContext(rest, DictSet(d, build_status.context, build_status))
            ELSE IF UpdatedAfter(build_status, DictGet(d, build_status.context))
            THEN MostRecentStatusByContext(rest, DictSet(d, build_status.context, build_status))
            ELSE MostRecentStatusByContext(rest, d)

\* the second loop: drop the ignored contexts
RECURSIVE DropIgnoredContexts(_, _)
DropIgnoredContexts(d, ignored) ==
    IF ignored = <<>> THEN d
    ELSE LET context_to_ignore == Head(ignored)
         IN IF DictHas(d, context_to_ignore)
            THEN DropIgnoredContexts(DictDel(d, context_to_ignore), Tail(ignored))
            ELSE DropIgnoredContexts(d, Tail(ignored))

\* the third loop: failure at once, pending remembered
RECURSIVE ScanStopAtPending(_, _)
ScanStopAtPending(most_recent_statuses, any_pending) ==
    IF most_recent_statuses = <<>> THEN "success"
    ELSE LET status == Head(most_recent_statuses)
         IN IF status.state = "failure" THEN "failure"
            ELSE IF status.state = "pending" THEN "pending"
            ELSE ScanStopAtPending(Tail(most_recent_statuses), any_pending)

RECURSIVE ScanStatuses(_, _)
ScanStatuses(most_recent_statuses, any_pending) ==
    IF most_recent_statuses = <<>>
    THEN IF any_pending THEN "pending" ELSE "success"
    ELSE LET status == Head(most_recent_statuses)
         IN IF status.state = "failure" THEN "failure"
            ELSE IF status.state = "pending"
            THEN ScanStatuses(Tail(most_recent_statuses), TRUE)
            ELSE ScanStatuses(Tail(most_recent_statuses), any_pending)

\* lines 147-161: the verdict over the statuses that are left
CombinedVerdict(d) ==
    LET most_recent_statuses == DictValues(d)
    IN IF Len(most_recent_statuses) = 0 THEN "None"
       ELSE ScanStatuses(most_recent_statuses, FALSE)

\* the whole function, on the statuses of one pull request
fetch_combined_build_status(statuses, ignored) ==
    CombinedVerdict(DropIgnoredContexts(MostRecentStatusByContext(statuses, <<>>), ignored))

-----------------------------------------------------------------------------
(* fetch_pull_request_review_status_group *)

\* x goes behind every element whose key is at least its own: equal keys keep input order
RECURSIVE InsertNewestFirst(_, _, _)
InsertNewestFirst(x, sorted, field) ==
    IF sorted = <<>> THEN <<x>>
    ELSE IF Head(sorted)[field] >= x[field]
         THEN <<Head(sorted)>> \o InsertNewestFirst(x, Tail(sorted), field)
         ELSE <<x>> \o sorted

\* sorted(items, key=lambda r: r.<field>, reverse=True): a stable sort, newest first
RECURSIVE SortedNewestFirst(_, _)
SortedNewestFirst(items, field) ==
    IF items = <<>> THEN <<>>
    ELSE InsertNewestFirst(items[Len(items)],
                           SortedNewestFirst(SubSeq(items, 1, Len(items) - 1), field), field)

\* the loop that keeps the first review of every user
RECURSIVE KeepFirstPerUser(_, _, _)
KeepFirstPerUser(reviews, users, kept) ==
    IF reviews = <<>> THEN kept
    ELSE LET review == Head(reviews)
         IN IF review.user \in users
            THEN KeepFirstPerUser(Tail(reviews), users, kept)
            ELSE KeepFirstPerUser(Tail(reviews), users \cup {review.user}, Append(kept, review))

\* lines 214-231: sort, drop the author's reviews, drop the comments, keep one per reviewer
LastReviewsCommentsDroppedLate(reviews, user) ==
    LET sorted == SortedNewestFirst(reviews, "submitted_at")
        not_author == SelectSeq(sorted, LAMBDA r : r.user # user)
    IN SelectSeq(KeepFirstPerUser(not_author, {}, <<>>), LAMBDA r : r.state # "COMMENTED")
LastReviews(reviews, user) ==
    LET sorted == SortedNewestFirst(reviews, "submitted_at")
        not_author == SelectSeq(sorted, LAMBDA r : r.user # user)
        not_comment == SelectSeq(not_author, LAMBDA r : r.state # "COMMENTED")
    IN KeepFirstPerUser(not_comment, {}, <<>>)

\* commits[0].commit_date > last_reviews[0].submitted_at
CommittedAfterOrAt(commit, review) == commit.commit_date >= review.submitted_at
CommittedAfter(commit, review) == commit.commit_date > review.submitted_at

\* lines 233-254: the group, or "IndexError" when commits[0] does not exist
ReviewStatusGroupNoDefault(reviews, commits) ==
    LET changes_requested == \E i \in 1..Len(reviews) : reviews[i].state = "CHANGES_REQUESTED"
        approved == \E i \in 1..Len(reviews) : reviews[i].state = "APPROVED"
        sorted == SortedNewestFirst(commits, "commit_date")
    IN IF changes_requested
       THEN IF sorted = <<>> THEN "IndexError"
            ELSE IF CommittedAfter(sorted[1], reviews[1]) THEN "changes_since_review"
            ELSE IF approved THEN "mixed_reception" ELSE "changes_requested"
       ELSE IF approved THEN "approved" ELSE "None"
ReviewStatusGroup(reviews, commits) ==
    LET changes_requested == \E i \in 1..Len(reviews) : reviews[i].state = "CHANGES_REQUESTED"
        approved == \E i \in 1..Len(reviews) : reviews[i].state = "APPROVED"
        sorted == SortedNewestFirst(commits, "commit_date")
    IN IF changes_requested
       THEN IF sorted = <<>> THEN "IndexError"
            ELSE IF CommittedAfter(sorted[1], reviews[1]) THEN "changes_since_review"
            ELSE IF approved THEN "mixed_reception" ELSE "changes_requested"
       ELSE IF approved THEN "approved" ELSE "unreviewed"

\* the whole function, on the reviews and commits of one pull request
fetch_pull_request_review_status_group(reviews, commits, user) ==
    ReviewStatusGroup(LastReviews(reviews, user), commits)

-----------------------------------------------------------------------------
(* Filtering and formatting. *)

\* lines 104-109: the open pulls of a repository by the wanted users
fetch_repository_pulls(repository) ==
    SelectSeq(repository.pulls,
              LAMBDA pull : /\ pull.state = "open"
                            /\ (USERNAMES = <<>> \/ InList(lower(pull.user), USERNAMES)))

\* lines 112-118
is_valid_title_as_written(title) ==
    ~\E i \in 1..Len(IGNORE_WORDS) : IsSubstring(IGNORE_WORDS[i], title)
is_valid_title(title) ==
    LET lowercase_title == lower(title)
    IN ~\E i \in 1..Len(IGNORE_WORDS) : IsSubstring(IGNORE_WORDS[i], lowercase_title)

\* line 300: the repository is skipped
RepositorySkipped(repository) ==
    REPOSITORIES # <<>> /\ ~InList(lower(repository.name), REPOSITORIES)

\* lines 269-274: '*{}[{}/{}]* <{}|{} - by {}>'.format(...)
FormatLine(pull, combined) ==
    LET build_status == IF SHOW_BUILD_STATUS THEN state_to_emoji(combined) ELSE ""
    IN <<"*", build_status, "[", "ORGANIZATION", "/", pull.repository, "]* <",
         pull.html_url, "|", pull.title, " - by ", pull.user, ">">>

\* grouped_by_pr_status.get(group), <<>> standing for both None and []
GroupLines(grouped, group) == IF DictHas(grouped, group) THEN DictGet(grouped, group) ELSE <<>>

\* lines 277-287: the lines of the report
RECURSIVE RenderGroups(_, _)
RenderGroups(grouped, order) ==
    IF order = <<>> THEN <<>>
    ELSE LET group == Head(order)
             group_lines == GroupLines(grouped, group)
         IN IF group_lines # <<>>
            THEN <<pr_status_group_to_msg(group)>> \o group_lines \o RenderGroups(grouped, Tail(order))
            ELSE RenderGroups(grouped, Tail(order))

RenderOutput(grouped) ==
    IF ~SPLIT_BY_REVIEW_STATUS THEN GroupLines(grouped, "default")
    ELSE RenderGroups(grouped, pr_status_groups_display_order)

\* '\n'.join(lines)
RECURSIVE Join(_)
Join(ls) ==
    IF ls = <<>> THEN <<>>
    ELSE IF Len(ls) = 1 THEN <<ls[1]>>
    ELSE <<ls[1], "\n">> \o Join(Tail(ls))

\* line 328
MessageText(ls) == <<"INITIAL_MESSAGE">> \o Join(ls)

-----------------------------------------------------------------------------
(* The inputs the model draws from. *)

SeqsUpTo(S, n) == UNION {[1..k -> S] : k \in 0..n}

Times == 1..MaxTime

Ci == <<99, 105>>    \* 'ci'
Contexts == {Ci, <<67, 105>>}    \* 'ci', 'Ci'
StatusStates == {"success", "pending", "failure"}
Statuses == [context : Contexts, state : StatusStates,
             updated_at : {None} \cup {Some(t) : t \in Times}]

\* values of IGNORE_BUILD_STATUS_CONTEXTS: unset, "ci", "Ci ,x"
\* unset, 'ci', 'Ci ,x'
IgnoreContextsEnvs == {<<>>, << Ci >>, << <<67, 105, 32>>, <<120>> >>}

Al == <<65, 108>>    \* 'Al'
Bo == <<98, 111>>    \* 'bo'
Cy == <<99, 121>>    \* 'cy'
Users == {Al, Bo, Cy}
ReviewStates == {"APPROVED", "CHANGES_REQUESTED", "COMMENTED", "PENDING"}
Reviews == [user : Users, state : ReviewStates, submitted_at : Times]
Commits == [commit_date : Times]

DefaultEnv == [IGNORE_WORDS |-> <<>>, REPOSITORIES |-> <<>>, USERNAMES |-> <<>>,
               IGNORE_BUILD_STATUS_CONTEXTS |-> <<>>,
               SHOW_BUILD_STATUS |-> {}, SPLIT_BY_REVIEW_STATUS |-> {}]

BuildIdle ==
    /\ build_statuses = <<>> /\ first_loop_statuses = <<>>
    /\ most_recent_status_by_context = <<>> /\ combined_status = "None"

ReviewIdle ==
    /\ pr_reviews = <<>> /\ pr_commits = <<>> /\ pr_user = Al
    /\ last_reviews = <<>> /\ pr_status_group = "None"

CliIdle ==
    /\ organization = <<>> /\ repo_idx = 0 /\ prs = <<>> /\ pull_idx = 0
    /\ grouped_by_pr_status = <<>> /\ lines = <<>> /\ slack_posts = <<>>
    /\ status_fetches = <<>> /\ review_fetches = <<>>

-----------------------------------------------------------------------------
(* fetch_combined_build_status on the statuses of one pull request. *)

InitBuild ==
    /\ pc = "fetch_combined_build_status"
    /\ \E ignored \in IgnoreContextsEnvs :
           env = [DefaultEnv EXCEPT !.IGNORE_BUILD_STATUS_CONTEXTS = ignored]
    /\ build_statuses \in SeqsUpTo(Statuses, MaxStatuses)
    /\ first_loop_statuses = <<>>
    /\ most_recent_status_by_context = <<>>
    /\ combined_status = "None"
    /\ ReviewIdle
    /\ CliIdle

\* lines 121-161
FetchCombinedBuildStatus ==
    /\ pc = "fetch_combined_build_status"
    /\ first_loop_statuses' = MostRecentStatusByContext(build_statuses, <<>>)
    /\ most_recent_status_by_context' =
           DropIgnoredContexts(first_loop_statuses', IGNORE_BUILD_STATUS_CONTEXTS)
    /\ combined_status' = CombinedVerdict(most_recent_status_by_context')
    /\ pc' = "build_return"
    /\ UNCHANGED <<env, build_statuses, reviewVars, cliVars>>

NextBuild == FetchCombinedBuildStatus

SpecBuild == InitBuild /\ [][NextBuild]_vars

-----------------------------------------------------------------------------
(* fetch_combined_build_status on a multiset of statuses: the statuses are drawn in one
   arrangement of each multiset, the ascending one. *)

StateRank(state) == CASE state = "success" -> 1 [] state = "pending" -> 2 [] state = "failure" -> 3
ContextRank(context) == IF context = Ci THEN 1 ELSE 2
TimeRank(updated_at) == IF updated_at = None THEN 0 ELSE updated_at[1]

\* a is not behind b in the order of contexts, then states, then timestamps
NotBehind(a, b) ==
    \/ ContextRank(a.context) < ContextRank(b.context)
    \/ /\ a.context = b.context
       /\ \/ StateRank(a.state) < StateRank(b.state)
          \/ a.state = b.state /\ TimeRank(a.updated_at) <= TimeRank(b.updated_at)

Ascending(seq) == \A i \in 1..(Len(seq) - 1) : NotBehind(seq[i], seq[i + 1])

InitOrder ==
    /\ pc = "fetch_combined_build_status"
    /\ \E ignored \in IgnoreContextsEnvs :
           env = [DefaultEnv EXCEPT !.IGNORE_BUILD_STATUS_CONTEXTS = ignored]
    /\ build_statuses \in {seq \in SeqsUpTo(Statuses, MaxStatuses) : Ascending(seq)}
    /\ first_loop_statuses = <<>>
    /\ most_recent_status_by_context = <<>>
    /\ combined_status = "None"
    /\ ReviewIdle
    /\ CliIdle

NextOrder == FetchCombinedBuildStatus

SpecOrder == InitOrder /\ [][NextOrder]_vars

-----------------------------------------------------------------------------
(* fetch_pull_request_review_status_group on the reviews and commits of one pull request. *)

InitReview ==
    /\ pc = "fetch_pull_request_review_status_group"
    /\ env = DefaultEnv
    /\ pr_reviews \in SeqsUpTo(Reviews, MaxReviews)
    /\ pr_commits \in SeqsUpTo(Commits, MaxCommits)
    /\ pr_user = Al
    /\ last_reviews = <<>>
    /\ pr_status_group = "None"
    /\ BuildIdle
    /\ CliIdle

\* lines 213-254: a group is returned, or the IndexError of commits[0] is raised
FetchPullRequestReviewStatusGroup ==
    /\ pc = "fetch_pull_request_review_status_group"
    /\ last_reviews' = LastReviews(pr_reviews, pr_user)
    /\ pr_status_group' = ReviewStatusGroup(last_reviews', pr_commits)
    /\ pc' = IF pr_status_group' = "IndexError" THEN "review_raised" ELSE "review_return"
    /\ UNCHANGED <<env, pr_reviews, pr_commits, pr_user, buildVars, cliVars>>

NextReview == FetchPullRequestReviewStatusGroup

SpecReview == InitReview /\ [][NextReview]_vars

-----------------------------------------------------------------------------
(* cli: fetch_organization_pulls, format_pull_requests, send_to_slack. *)

Web == <<87, 101, 98>>     \* 'Web'
Ops == <<214, 112, 115>>    \* 'Ops', its O with a diaeresis (U+00D6)

Fix == <<70, 105, 120>>             \* 'Fix'
aWiP == <<97, 32, 87, 105, 80>>    \* 'a WiP'

\* state, author and title of a listed pull request: each fails one filter at most
PullHeads ==
    { [state |-> "open",   user |-> Al, title |-> Fix],
      [state |-> "closed", user |-> Al, title |-> Fix],
      [state |-> "open",   user |-> Bo, title |-> Fix],
      [state |-> "open",   user |-> Al, title |-> aWiP] }

\* a listed pull request: html_url numbers it, repository names the repository listing it
Pull(head, url, name) ==
    [state |-> head.state, user |-> head.user, title |-> head.title,
     html_url |-> url, repository |-> name]

\* two repositories, Web and Ops, listing MaxPulls pull requests at most between them
Organizations ==
    { << [name |-> Web, pulls |-> [i \in 1..k |-> Pull(l[i], i, Web)]],
         [name |-> Ops, pulls |-> [i \in 1..(Len(l) - k) |-> Pull(l[k + i], k + i, Ops)]] >>
      : <<l, k>> \in {x \in SeqsUpTo(PullHeads, MaxPulls) \X (0..MaxPulls) : x[2] <= Len(x[1])} }

\* what the provider answers for a pull request: its statuses, reviews and commits
PullData ==
    { [statuses |-> << [context |-> Ci, state |-> "success", updated_at |-> Some(1)] >>,
       reviews  |-> << [user |-> Bo, state |-> "COMMENTED", submitted_at |-> 1] >>,
       commits  |-> << [commit_date |-> 1] >>],
      [statuses |-> << [context |-> Ci, state |-> "pending", updated_at |-> Some(1)],
                       [context |-> Ci, state |-> "failure", updated_at |-> Some(2)] >>,
       reviews  |-> << [user |-> Bo, state |-> "CHANGES_REQUESTED", submitted_at |-> 1] >>,
       commits  |-> << [commit_date |-> 1], [commit_date |-> 2] >>],
      [statuses |-> <<>>,
       reviews  |-> << [user |-> Bo, state |-> "CHANGES_REQUESTED", submitted_at |-> 2],
                       [user |-> Cy, state |-> "APPROVED", submitted_at |-> 1] >>,
       commits  |-> << [commit_date |-> 2] >>],
      [statuses |-> << [context |-> Ci, state |-> "pending", updated_at |-> Some(1)] >>,
       reviews  |-> << [user |-> Bo, state |-> "CHANGES_REQUESTED", submitted_at |-> 2] >>,
       commits  |-> << [commit_date |-> 1] >>],
      [statuses |-> << [context |-> Ci, state |-> "failure", updated_at |-> None] >>,
       reviews  |-> << [user |-> Bo, state |-> "CHANGES_REQUESTED", submitted_at |-> 1],
                       [user |-> Bo, state |-> "APPROVED", submitted_at |-> 2] >>,
       commits  |-> << [commit_date |-> 1] >>],
      [statuses |-> <<>>,
       reviews  |-> << [user |-> Cy, state |-> "CHANGES_REQUESTED", submitted_at |-> 1] >>,
       commits  |-> <<>>] }

\* values of the settings: each list unset or set to one entry, the split unset or empty
CliEnvs ==
    { [DefaultEnv EXCEPT !.IGNORE_WORDS = w, !.REPOSITORIES = r, !.USERNAMES = u,
                         !.SPLIT_BY_REVIEW_STATUS = sp]
      : w \in {<<>>, << <<32, 119, 73, 112>> >>},    \* unset, ' wIp'
        r \in {<<>>, << <<119, 101, 66, 13>> >>},   \* unset, 'weB' and a carriage return
        u \in {<<>>, << <<97, 76>> >>},             \* unset, 'aL'
        sp \in {{}, {<<>>}} }

Init ==
    /\ pc = "fetch_organization_pulls"
    /\ env \in CliEnvs
    /\ organization \in Organizations
    /\ repo_idx = 0
    /\ prs = <<>>
    /\ pull_idx = 0
    /\ grouped_by_pr_status = <<>>
    /\ lines = <<>>
    /\ slack_posts = <<>>
    /\ status_fetches = <<>>
    /\ review_fetches = <<>>
    /\ BuildIdle
    /\ ReviewIdle

\* lines 299-303, a repository that is not skipped
FetchRepository ==
    /\ pc = "fetch_organization_pulls"
    /\ repo_idx < Len(organization)
    /\ ~RepositorySkipped(organization[repo_idx + 1])
    /\ prs' = prs \o fetch_repository_pulls(organization[repo_idx + 1])
    /\ repo_idx' = repo_idx + 1
    /\ UNCHANGED <<pc, env, organization, pull_idx, grouped_by_pr_status, lines, slack_posts,
                   status_fetches, review_fetches, buildVars, reviewVars>>

\* lines 299-301, a repository that is skipped
SkipRepository ==
    /\ pc = "fetch_organization_pulls"
    /\ repo_idx < Len(organization)
    /\ RepositorySkipped(organization[repo_idx + 1])
    /\ repo_idx' = repo_idx + 1
    /\ UNCHANGED <<pc, env, organization, prs, pull_idx, grouped_by_pr_status, lines,
                   slack_posts, status_fetches, review_fetches, buildVars, reviewVars>>

\* line 305: the call of format_pull_requests
CallFormat ==
    /\ pc = "fetch_organization_pulls"
    /\ repo_idx = Len(organization)
    /\ pc' = "format_pull_requests"
    /\ UNCHANGED <<env, cliVars, buildVars, reviewVars>>

\* lines 261-275, a pull with a valid title: the provider answers with data; the line is
\* appended to its group, or the IndexError of the classification ends the run
FormatPull ==
    /\ pc = "format_pull_requests"
    /\ pull_idx < Len(prs)
    /\ is_valid_title(prs[pull_idx + 1].title)
    /\ \E data \in PullData :
         LET pull == prs[pull_idx + 1]
             combined == fetch_combined_build_status(data.statuses, IGNORE_BUILD_STATUS_CONTEXTS)
             group == IF SPLIT_BY_REVIEW_STATUS
                      THEN fetch_pull_request_review_status_group(data.reviews, data.commits, pull.user)
                      ELSE "default"
             line == FormatLine(pull, combined)
         IN /\ status_fetches' =
                   Append(status_fetches, [html_url |-> pull.html_url, combined |-> combined])
            /\ review_fetches' =
                   IF SPLIT_BY_REVIEW_STATUS
                   THEN Append(review_fetches, [html_url |-> pull.html_url, group |-> group])
                   ELSE review_fetches
            /\ IF group = "IndexError"
               THEN /\ pc' = "IndexError"
                    /\ UNCHANGED <<grouped_by_pr_status, pull_idx>>
               ELSE /\ grouped_by_pr_status' =
                           DictSet(grouped_by_pr_status, group,
                                   Append(GroupLines(grouped_by_pr_status, group), line))
                    /\ pull_idx' = pull_idx + 1
                    /\ pc' = pc
    /\ UNCHANGED <<env, organization, repo_idx, prs, lines, slack_posts, buildVars, reviewVars>>

\* lines 261-262, a pull with a title that holds an ignored word
SkipPull ==
    /\ pc = "format_pull_requests"
    /\ pull_idx < Len(prs)
    /\ ~is_valid_title(prs[pull_idx + 1].title)
    /\ pull_idx' = pull_idx + 1
    /\ UNCHANGED <<pc, env, organization, repo_idx, prs, grouped_by_pr_status, lines,
                   slack_posts, status_fetches, review_fetches, buildVars, reviewVars>>

\* lines 277-278: grouped_by_pr_status['default'] on the defaultdict(list) inserts the
\* key with [] when no line was appended under it; the .get of line 282 inserts nothing
DictAfterReturn(grouped) ==
    IF ~SPLIT_BY_REVIEW_STATUS /\ ~DictHas(grouped, "default")
    THEN DictSet(grouped, "default", <<>>)
    ELSE grouped

\* lines 277-287 and 305-307: the lines come back to cli
ReturnLines ==
    /\ pc = "format_pull_requests"
    /\ pull_idx = Len(prs)
    /\ lines' = RenderOutput(grouped_by_pr_status)
    /\ grouped_by_pr_status' = DictAfterReturn(grouped_by_pr_status)
    /\ pc' = "cli"
    /\ UNCHANGED <<env, organization, repo_idx, prs, pull_idx,
                   slack_posts, status_fetches, review_fetches, buildVars, reviewVars>>

\* line 327: `if lines:'
ShouldSendAlways(ls) == TRUE
ShouldSend(ls) == ls # <<>>

\* lines 327-329 and 310-322: the message is posted, the answer is ok or not
SendToSlack ==
    /\ pc = "cli"
    /\ ShouldSend(lines)
    /\ slack_posts' = Append(slack_posts, MessageText(lines))
    /\ \E ok \in BOOLEAN : pc' = IF ok THEN "done" ELSE "Exception"
    /\ UNCHANGED <<env, organization, repo_idx, prs, pull_idx, grouped_by_pr_status, lines,
                   status_fetches, review_fetches, buildVars, reviewVars>>

\* line 327, no line: cli returns without posting
ReturnSilently ==
    /\ pc = "cli"
    /\ ~ShouldSend(lines)
    /\ pc' = "done"
    /\ UNCHANGED <<env, cliVars, buildVars, reviewVars>>

Next ==
    \/ FetchRepository \/ SkipRepository \/ CallFormat
    \/ FormatPull \/ SkipPull \/ ReturnLines
    \/ SendToSlack \/ ReturnSilently

Spec == Init /\ [][Next]_vars

-----------------------------------------------------------------------------
(* Properties of fetch_combined_build_status, under SpecBuild. *)

\* indexes of the statuses of context c that carry a timestamp
TimedOf(c) ==
    {i \in 1..Len(build_statuses) :
        build_statuses[i].context = c /\ build_statuses[i].updated_at # None}

\* the status of context c the reduction is to keep: greatest timestamp, first in input order
FirstNewestOf(c) ==
    CHOOSE i \in TimedOf(c) :
        \A k \in TimedOf(c) :
            \/ build_statuses[k].updated_at[1] < build_statuses[i].updated_at[1]
            \/ build_statuses[k].updated_at[1] = build_statuses[i].updated_at[1] /\ i <= k

EntriesOf(c) == {j \in 1..Len(first_loop_statuses) : first_loop_statuses[j].key = c}

\* C9: after the first loop every context with a timestamped status has exactly one
\* entry, the status with the greatest timestamp and, among equals, the first of the
\* input; a status without timestamp is never kept and never makes a context appear.
C9_OneNewestPerContext ==
    pc = "build_return" =>
        /\ \A c \in Contexts :
               IF TimedOf(c) = {} THEN EntriesOf(c) = {}
               ELSE /\ Cardinality(EntriesOf(c)) = 1
                    /\ \A j \in EntriesOf(c) :
                           first_loop_statuses[j].value = build_statuses[FirstNewestOf(c)]
        /\ \A j \in 1..Len(first_loop_statuses) :
               /\ first_loop_statuses[j].key \in Contexts
               /\ first_loop_statuses[j].value.updated_at # None

\* a context with two statuses of different state at its greatest timestamp, and a
\* status without timestamp next to them
C9_Witness ==
    /\ pc = "build_return"
    /\ \E c \in Contexts : \E i, k \in TimedOf(c) :
           /\ i < k
           /\ i = FirstNewestOf(c)
           /\ build_statuses[k].updated_at = build_statuses[i].updated_at
           /\ build_statuses[k].state # build_statuses[i].state
    /\ \E i \in 1..Len(build_statuses) : build_statuses[i].updated_at = None
    /\ Len(first_loop_statuses) = 1

RetainedStates ==
    {most_recent_status_by_context[j].value.state : j \in 1..Len(most_recent_status_by_context)}

\* C2: over the statuses left after both loops the verdict is None iff none is left,
\* else failure iff one is failure, else pending iff one is pending, else success.
C2_VerdictOfRetained ==
    pc = "build_return" =>
        combined_status =
            IF most_recent_status_by_context = <<>> THEN "None"
            ELSE IF "failure" \in RetainedStates THEN "failure"
            ELSE IF "pending" \in RetainedStates THEN "pending"
            ELSE "success"

\* a pending status is scanned before a failure
C2_Witness ==
    /\ pc = "build_return"
    /\ Len(most_recent_status_by_context) = 2
    /\ most_recent_status_by_context[1].value.state = "pending"
    /\ most_recent_status_by_context[2].value.state = "failure"
    /\ combined_status = "failure"

\* the entries whose context equals no ignore entry when both are lowercased
NotIgnoredWhateverTheCase(d) ==
    SelectSeq(d, LAMBDA e :
        \A i \in 1..Len(env.IGNORE_BUILD_STATUS_CONTEXTS) :
            lower(e.key) # lower(env.IGNORE_BUILD_STATUS_CONTEXTS[i]))

\* C4 as claimed: a status whose context equals an ignore entry when both are lowercased
\* does not influence the verdict.
C4_IgnoredWhateverTheCase ==
    pc = "build_return" =>
        combined_status = CombinedVerdict(NotIgnoredWhateverTheCase(most_recent_status_by_context))

-----------------------------------------------------------------------------
(* Order of the statuses, under SpecOrder. *)

Injective(f) == \A a, b \in DOMAIN f : f[a] = f[b] => a = b
\* the permutations of 1..n, for every length of the input
PermutationsOf == [n \in 0..MaxStatuses |-> {f \in [1..n -> 1..n] : Injective(f)}]
Permuted(seq, f) == [i \in 1..Len(seq) |-> seq[f[i]]]

\* the verdict is the same for every order of the fetched statuses
SameVerdictInEveryOrder ==
    \A f \in PermutationsOf[Len(build_statuses)] :
        fetch_combined_build_status(Permuted(build_statuses, f), IGNORE_BUILD_STATUS_CONTEXTS)
            = combined_status

\* C1 as claimed: the verdict does not depend on the order of the statuses.
C1_OrderIndependent == pc = "build_return" => SameVerdictInEveryOrder

\* the statuses of a context that share its greatest timestamp have one state
NoTieOfDifferentStates ==
    \A c \in Contexts : \A i, k \in TimedOf(c) :
        /\ build_statuses[i].updated_at = build_statuses[k].updated_at
        /\ build_statuses[i].updated_at = build_statuses[FirstNewestOf(c)].updated_at
        => build_statuses[i].state = build_statuses[k].state

\* C1 amended: the verdict does not depend on the order of the statuses when, in every
\* context, the statuses sharing the greatest timestamp have the same state.
C1_OrderIndependentWithoutTies ==
    pc = "build_return" /\ NoTieOfDifferentStates => SameVerdictInEveryOrder

\* three statuses: a pending one ahead of a failure in another context, and a tie
C1_Witness ==
    /\ pc = "build_return"
    /\ NoTieOfDifferentStates
    /\ Len(build_statuses) = 3
    /\ \E i, k \in 1..3 :
           /\ i < k
           /\ build_statuses[i].context = build_statuses[k].context
           /\ build_statuses[i].updated_at = build_statuses[k].updated_at
           /\ build_statuses[i].updated_at # None
    /\ Len(most_recent_status_by_context) = 2
    /\ most_recent_status_by_context[1].value.state = "pending"
    /\ combined_status = "failure"

-----------------------------------------------------------------------------
(* Properties of fetch_pull_request_review_status_group, under SpecReview. *)

ReviewDone == pc \in {"review_return", "review_raised"}

\* indexes of the reviews of u that count: not by the author of the pull, not a comment
CountingOf(u) ==
    {i \in 1..Len(pr_reviews) :
        /\ pr_reviews[i].user = u
        /\ u # pr_user
        /\ pr_reviews[i].state # "COMMENTED"}

KeptOf(u) == {j \in 1..Len(last_reviews) : last_reviews[j].user = u}

\* C10: the reduced list holds, for every user with a counting review, exactly one
\* review, a latest one among the user's counting reviews, and nothing for other users.
C10_LatestCountingReviewPerUser ==
    ReviewDone =>
        \A u \in Users :
            IF CountingOf(u) = {} THEN KeptOf(u) = {}
            ELSE /\ Cardinality(KeptOf(u)) = 1
                 /\ \A j \in KeptOf(u) : \E i \in CountingOf(u) :
                        /\ last_reviews[j] = pr_reviews[i]
                        /\ \A k \in CountingOf(u) :
                               pr_reviews[k].submitted_at <= pr_reviews[i].submitted_at

\* a reviewer requests changes and comments later: the request stays
C10_Witness ==
    /\ pc = "review_return"
    /\ \E i, k \in 1..Len(pr_reviews) :
           /\ pr_reviews[i].user = Bo /\ pr_reviews[k].user = Bo
           /\ pr_reviews[i].state = "CHANGES_REQUESTED"
           /\ pr_reviews[k].state = "COMMENTED"
           /\ pr_reviews[k].submitted_at > pr_reviews[i].submitted_at
           /\ last_reviews = <<pr_reviews[i]>>
    /\ pr_status_group = "changes_requested"

HasChangesRequested == \E j \in 1..Len(last_reviews) : last_reviews[j].state = "CHANGES_REQUESTED"
HasApproved == \E j \in 1..Len(last_reviews) : last_reviews[j].state = "APPROVED"

\* some commit is newer than every retained review
CommitAfterEveryReview ==
    \E c \in 1..Len(pr_commits) : \A j \in 1..Len(last_reviews) :
        pr_commits[c].commit_date > last_reviews[j].submitted_at

\* C5: with at least one commit the group is changes_since_review iff changes are
\* requested and the newest commit is strictly newer than the newest retained review,
\* else mixed_reception iff changes are requested and someone approved, else
\* changes_requested, else approved, else unreviewed.
C5_GroupOfRetainedReviews ==
    ReviewDone /\ pr_commits # <<>> =>
        /\ pc = "review_return"
        /\ pr_status_group =
               IF HasChangesRequested /\ CommitAfterEveryReview THEN "changes_since_review"
               ELSE IF HasChangesRequested /\ HasApproved THEN "mixed_reception"
               ELSE IF HasChangesRequested THEN "changes_requested"
               ELSE IF HasApproved THEN "approved"
               ELSE "unreviewed"

\* two commits, the older first, the newer at the very time of the newest review
C5_Witness ==
    /\ pc = "review_return"
    /\ Len(pr_commits) = 2
    /\ pr_commits[1].commit_date < pr_commits[2].commit_date
    /\ HasChangesRequested /\ HasApproved
    /\ \E j \in 1..Len(last_reviews) : last_reviews[j].submitted_at = pr_commits[2].commit_date
    /\ ~CommitAfterEveryReview
    /\ pr_status_group = "mixed_reception"

\* C3 as claimed: the classification never ends in an error and returns one of the groups.
C3_Total ==
    /\ pc # "review_raised"
    /\ pc = "review_return" => pr_status_group \in PullRequestStatusGroup

\* C3 amended: the classification returns one of the five groups, except that it ends
\* in an IndexError exactly when changes are requested and there is no commit.
C3_TotalButForNoCommit ==
    ReviewDone =>
        /\ pc = "review_raised" <=> (HasChangesRequested /\ pr_commits = <<>>)
        /\ pc = "review_return" => pr_status_group \in PullRequestStatusGroup

\* no commit, reviews that do not count: a group all the same
C3_Witness ==
    /\ pc = "review_return"
    /\ pr_commits = <<>>
    /\ Len(pr_reviews) = MaxReviews
    /\ last_reviews = <<>>
    /\ pr_status_group = "unreviewed"

-----------------------------------------------------------------------------
(* Properties of the cli run, under Spec. *)

\* format_pull_requests has returned the lines of the report
ReportReturned == pc \in {"cli", "done", "Exception"}

AllPulls == UNION {{organization[r].pulls[i] : i \in 1..Len(organization[r].pulls)}
                   : r \in 1..Len(organization)}

Members(list) == {list[i] : i \in 1..Len(list)}

\* open, author allowed, repository allowed, no blocked word in the title
Eligible(pull) ==
    /\ pull.state = "open"
    /\ (USERNAMES = <<>> \/ lower(pull.user) \in Members(USERNAMES))
    /\ (REPOSITORIES = <<>> \/ lower(pull.repository) \in Members(REPOSITORIES))
    /\ \A word \in Members(IGNORE_WORDS) : ~IsSubstring(word, lower(pull.title))

\* a line of a pull has the thirteen pieces of the format, a header is one piece
IsPullLine(l) == Len(l) = 13
\* the lines of the report that link to the pull: the eighth piece is its html_url
LinesOf(pull) == {i \in 1..Len(lines) : IsPullLine(lines[i]) /\ lines[i][8] = pull.html_url}

StatusFetchesOf(pull) ==
    {j \in 1..Len(status_fetches) : status_fetches[j].html_url = pull.html_url}
ReviewFetchesOf(pull) ==
    {j \in 1..Len(review_fetches) : review_fetches[j].html_url = pull.html_url}

\* C6: the report holds exactly one line for a pull request iff it is open and passes
\* the author, repository and title filters; and neither build statuses nor reviews are
\* ever fetched for a pull request that fails one of them.
C6_LineIffEligible ==
    /\ ReportReturned =>
           \A pull \in AllPulls :
               Cardinality(LinesOf(pull)) = IF Eligible(pull) THEN 1 ELSE 0
    /\ \A pull \in AllPulls :
           ~Eligible(pull) => StatusFetchesOf(pull) = {} /\ ReviewFetchesOf(pull) = {}

\* every filter is configured; one pull passes them all, one fails on its title only
C6_Witness ==
    /\ pc = "done"
    /\ USERNAMES # <<>> /\ REPOSITORIES # <<>> /\ IGNORE_WORDS # <<>>
    /\ \E p, q \in AllPulls :
           /\ Eligible(p)
           /\ Len(status_fetches) = 1 /\ StatusFetchesOf(p) = {1}
           /\ Cardinality(LinesOf(p)) = 1
           /\ q.state = "open" /\ q.user = p.user /\ q.repository = p.repository
           /\ ~Eligible(q)

PullOfUrl(url) == CHOOSE pull \in AllPulls : pull.html_url = url

\* the line of a pull request, with the build status combined for it
LineOfUrl(url) ==
    FormatLine(PullOfUrl(url),
               status_fetches[CHOOSE j \in 1..Len(status_fetches) :
                                  status_fetches[j].html_url = url].combined)

\* the header of a group and the lines of the pulls classified into it, in the order of
\* their classification; nothing for a group without pull
SectionOf(group) ==
    LET classified == SelectSeq(review_fetches, LAMBDA e : e.group = group)
    IN IF classified = <<>> THEN <<>>
       ELSE <<pr_status_group_to_msg(group)>>
            \o [i \in 1..Len(classified) |-> LineOfUrl(classified[i].html_url)]

\* C7: with the split enabled the report is the sections of unreviewed,
\* changes_since_review, mixed_reception, changes_requested, approved, in this order,
\* each a header and its lines in processing order, a group without line giving nothing;
\* no header comes twice.
C7_SectionsInDisplayOrder ==
    ReportReturned /\ SPLIT_BY_REVIEW_STATUS =>
        /\ lines = SectionOf("unreviewed") \o SectionOf("changes_since_review")
                   \o SectionOf("mixed_reception") \o SectionOf("changes_requested")
                   \o SectionOf("approved")
        /\ \A i, j \in 1..Len(lines) : i < j /\ ~IsPullLine(lines[i]) => lines[i] # lines[j]

\* an approved pull is processed before an unreviewed one and reported after it
C7_Witness ==
    /\ pc = "done"
    /\ SPLIT_BY_REVIEW_STATUS
    /\ Len(review_fetches) = 2
    /\ review_fetches[1].group = "approved"
    /\ review_fetches[2].group = "unreviewed"
    /\ lines = << pr_status_group_to_msg("unreviewed"), LineOfUrl(review_fetches[2].html_url),
                  pr_status_group_to_msg("approved"), LineOfUrl(review_fetches[1].html_url) >>

\* C8: send_to_slack is called at most once in a run, never with an empty list of lines,
\* and only once every repository is fetched and every pull formatted.
C8_OnePostAfterFormatting ==
    /\ Len(slack_posts) <= 1
    /\ slack_posts # <<>> =>
           /\ lines # <<>>
           /\ pc \in {"done", "Exception"}
           /\ repo_idx = Len(organization)
           /\ pull_idx = Len(prs)
           /\ slack_posts[1] = MessageText(lines)
    /\ pc = "done" /\ lines = <<>> => slack_posts = <<>>

\* a run over an organization with pulls, none of them eligible: it ends without a post
C8_Witness ==
    /\ pc = "done"
    /\ Cardinality(AllPulls) = MaxPulls
    /\ lines = <<>>
    /\ slack_posts = <<>>

====
